---- MODULE Spec2Model ----
(***************************************************************************)
(* Model of the protocol/transport layer of the ACCESS MCP base server     *)
(* (packages/xdmod-mcp-data/src/xdmod_mcp_data/base_server.py):            *)
(*   - BaseAccessServer._handle_jsonrpc_message, the JSON-RPC dispatcher;  *)
(*   - sse_handler, one coroutine per GET /sse, positions at its awaits;   *)
(*   - messages_handler, one coroutine per POST /messages;                 *)
(*   - execute_tool, one coroutine per POST /tools/{tool_name}.            *)
(* now is the clock, in the unit of the timeout of line 237; waitStart is  *)
(* when the pending wait_for of a /sse handler began and opened when the   *)
(* handler began.  Only SpecTimed lets the clock advance.                  *)
(* discovery is the call of XDMoDPythonServer._discover_person_ids         *)
(* (packages/xdmod-python/src/xdmod_python/server.py), a tool of a         *)
(* concrete server; names and search terms are sequences of characters.    *)
(* listings holds the answers of the GET /tools requests received so far.  *)
(* Python strings built by f-strings or str(e) are modelled as tuples of   *)
(* their parts; None is the value NONE; a missing mapping key is ABSENT.   *)
(***************************************************************************)
EXTENDS Integers, Sequences, FiniteSets, TLC

VARIABLES sessions, objs, ssePc, inhand, emitted, enqueued, posts, toolCalls,
          now, waitStart, opened, rests, discovery, listings

vars == <<sessions, objs, ssePc, inhand, emitted, enqueued, posts, toolCalls,
          now, waitStart, opened, rests, discovery, listings>>

(* ---------------------------- bounds ----------------------------------- *)
(* Spec: sessions ever created, POSTs ever received, keepalives per stream. *)
MaxSessions == 2
MaxPosts == 2
MaxKeepalives == 1
(* SpecDispatch: the same, for the runs that draw every request shape.     *)
DispatchSessions == 1
DispatchPosts == 1
(* SpecTimed: sessions, POSTs, and the time up to which the clock runs.    *)
TimedSessions == 1
TimedPosts == 1
MaxTime == 33
(* SpecRest: sessions, POSTs on /messages and POSTs on /tools/{tool_name}. *)
RestSessions == 1
RestPosts == 1
RestCalls == 1
(* SpecFrame: sessions and POSTs of the runs that dispatch before and      *)
(* after an initialize.                                                    *)
FrameSessions == 2
FramePosts == 3
(* SpecTools: sessions, POSTs on /messages, POSTs on /tools/{tool_name}    *)
(* and GETs on /tools.                                                     *)
ToolsSessions == 1
ToolsPosts == 2
ToolsCalls == 1
ToolsLists == 1
(* SpecDiscover: persons the warehouse returns, and the largest limit.     *)
MaxPersons == 3
MaxLimit == 3

(* ------------------------- value encodings ----------------------------- *)
NONE == "<None>"
ABSENT == "<absent>"
NoSessionId == 0

Get(v, default) == IF v = ABSENT THEN default ELSE v

Str(v) == IF v = NONE THEN "None" ELSE v

EmptyMapping == [kind |-> "object", name |-> ABSENT, arguments |-> ABSENT]

(* ----------------------- the tool registry ----------------------------- *)
(* get_tools() of a concrete server: two tools, in registration order.     *)
get_tools ==
  << [name |-> "get_user_data", description |-> "d1", inputSchema |-> "schema1"],
     [name |-> "discover_person_ids", description |-> "d2", inputSchema |-> "schema2"] >>

ToolNames == {get_tools[i].name : i \in 1..Len(get_tools)}

(* A validation that lets every name through.                              *)
tool_exists_any(tool_name) == TRUE

tool_exists(tool_name) == \E i \in 1..Len(get_tools) : get_tools[i].name = tool_name

(* What handle_tool_call can do: return a str, return a structured JSON   *)
(* value, return a list of TextContent objects, or raise.                  *)
ToolOutcomes ==
  { [kind |-> "str", val |-> <<"plain text">>],
    [kind |-> "json", val |-> <<"structured">>],
    [kind |-> "textlist", val |-> <<"item text">>],
    [kind |-> "raise", val |-> <<"tool failed">>] }

(* The same, and a value that is neither JSON nor TextContent (a set).     *)
RestOutcomes == ToolOutcomes \cup { [kind |-> "opaque", val |-> <<"set">>] }

(* json.dumps(result, indent=2): text of a JSON value; a TextContent       *)
(* object, like a set, is not JSON serialisable and makes it raise         *)
(* TypeError.                                                              *)
JsonDumpsRaises(result) == result.kind \in {"textlist", "opaque"}

JsonDumpsIndent2(result) == <<"json.dumps:">> \o result.val

TypeErrorText == <<"Object of type TextContent is not JSON serializable">>

TypeErrorTextOf(result) ==
  IF result.kind = "textlist"
    THEN TypeErrorText
    ELSE <<"Object of type set is not JSON serializable">>

(* str(e) of the json.JSONDecodeError of a body that is not JSON text.     *)
JsonDecodeErrorText == <<"Expecting value: line 1 column 1 (char 0)">>

(* The {} default of .get("arguments", {}).                                *)
EmptyArguments == "{}"

AttributeErrorText(kind) ==
  <<"'", IF kind = "null" THEN "NoneType" ELSE "list", "' object has no attribute 'get'">>

(* ------------------------- request inputs ------------------------------ *)
Methods == {"initialize", "notifications/initialized", "tools/list", "tools/call",
            "resources/list", "prompts/list", "foo/bar", ABSENT}

Ids == {ABSENT, "1", "2"}

NoParams == [kind |-> "absent", name |-> ABSENT, arguments |-> ABSENT]

(* params of a tools/call: a mapping with or without name and arguments.   *)
CallParams ==
  { [kind |-> "object", name |-> n, arguments |-> ABSENT] :
      n \in ToolNames \cup {"missing_tool", ABSENT} }
  \cup { [kind |-> "object", name |-> "get_user_data", arguments |-> "args"] }

(* params that are no mapping: JSON null, a JSON array.                    *)
NonMappingParams ==
  { [kind |-> k, name |-> ABSENT, arguments |-> ABSENT] : k \in {"null", "array"} }

NonMappingMessage ==
  [kind |-> "array", method |-> ABSENT, id |-> ABSENT,
   params |-> NoParams]

InvalidJson ==
  [kind |-> "invalid", method |-> ABSENT, id |-> ABSENT,
   params |-> NoParams]

Messages ==
  { [kind |-> "object", method |-> m, id |-> i, params |-> NoParams] :
      m \in Methods, i \in Ids }
  \cup
  { [kind |-> "object", method |-> m, id |-> i, params |-> p] :
      m \in {"notifications/initialized", "tools/call"}, i \in Ids, p \in NonMappingParams }
  \cup
  { [kind |-> "object", method |-> "tools/call", id |-> i, params |-> p] :
      i \in Ids, p \in CallParams }
  \cup {NonMappingMessage}

Bodies == Messages \cup {InvalidJson}

(* The bodies the clients of Spec send: one per way a POST can end.        *)
SmallBodies ==
  { [kind |-> "object", method |-> "initialize", id |-> "1",
     params |-> NoParams],
    [kind |-> "object", method |-> "notifications/initialized", id |-> ABSENT,
     params |-> NoParams],
    [kind |-> "object", method |-> "notifications/initialized", id |-> "1",
     params |-> [kind |-> "array", name |-> ABSENT, arguments |-> ABSENT]],
    [kind |-> "object", method |-> "tools/call", id |-> "2",
     params |-> [kind |-> "object", name |-> "get_user_data", arguments |-> "args"]],
    NonMappingMessage,
    InvalidJson }

SmallOutcomes == {o \in ToolOutcomes : o.kind \in {"str", "raise", "textlist"}}

(* --------------------------- envelopes --------------------------------- *)
NoEnvelope == [jsonrpc |-> "none"]

(* A success envelope that also carries an error member.                   *)
ResultEnvelope_with_error(msg_id, result) ==
  [jsonrpc |-> "2.0", id |-> msg_id, result |-> result,
   error |-> [code |-> 0, message |-> << >>]]

ResultEnvelope(msg_id, result) == [jsonrpc |-> "2.0", id |-> msg_id, result |-> result]

(* An error path that forgets the request id.                              *)
ErrorEnvelope_null_id(msg_id, code, message) ==
  [jsonrpc |-> "2.0", id |-> NONE, error |-> [code |-> code, message |-> message]]

ErrorEnvelope(msg_id, code, message) ==
  [jsonrpc |-> "2.0", id |-> msg_id, error |-> [code |-> code, message |-> message]]

InitializeResult ==
  [protocolVersion |-> "2024-11-05",
   capabilities |-> [tools |-> "{}", resources |-> "{}"],
   serverInfo |-> [name |-> "server_name", version |-> "version"]]

(* A listing built back to front.                                          *)
tools_data_reversed ==
  [i \in 1..Len(get_tools) |->
     [name |-> get_tools[Len(get_tools) + 1 - i].name,
      description |-> get_tools[Len(get_tools) + 1 - i].description,
      inputSchema |-> get_tools[Len(get_tools) + 1 - i].inputSchema]]

tools_data ==
  [i \in 1..Len(get_tools) |->
     [name |-> get_tools[i].name,
      description |-> get_tools[i].description,
      inputSchema |-> get_tools[i].inputSchema]]

ToolNotFoundText(tool_name) == <<"Tool '", Str(tool_name), "' not found">>

(* The text of the prompts/list branch, for every method.                  *)
MethodNotFoundText_plain(method) == <<"Method not found">>

MethodNotFoundText(method) == <<"Method '", Str(method), "' not found">>

TextContentResult(text) == [content |-> << [type |-> "text", text |-> text] >>]

(* ------------- BaseAccessServer._handle_jsonrpc_message ---------------- *)
(* An outcome of the synchronous part of a dispatch:                       *)
(*   out = "raised"    the coroutine raised (exc is str(e));               *)
(*   out = "envelope"  it returned the envelope resp;                      *)
(*   out = "nothing"   it returned None;                                   *)
(*   out = "await"     it reached `await self.handle_tool_call(...)`.      *)
(* init says whether session.initialized was set to True.                  *)
Outcome(out, resp, init, exc) == [out |-> out, resp |-> resp, init |-> init, exc |-> exc]

Returned(resp) == Outcome("envelope", resp, FALSE, <<>>)

(* An initialize branch without `session.initialized = True`.              *)
OnInitialize_unmarked(msg_id) ==
  Outcome("envelope", ResultEnvelope(msg_id, InitializeResult), FALSE, <<>>)

OnInitialize(msg_id) == Outcome("envelope", ResultEnvelope(msg_id, InitializeResult), TRUE, <<>>)

(* A dispatcher that acknowledges the notification.                        *)
OnNotificationsInitialized_ack(msg_id) ==
  Outcome("envelope", ResultEnvelope(msg_id, [acknowledged |-> "{}"]), FALSE, <<>>)

OnNotificationsInitialized(msg_id) == Outcome("nothing", NoEnvelope, FALSE, <<>>)

OnToolsList(msg_id) == Returned(ResultEnvelope(msg_id, [tools |-> tools_data]))

OnToolsCall(msg_id, params) ==
  IF params.kind # "object"
    THEN Returned(ErrorEnvelope(msg_id, -32603, AttributeErrorText(params.kind)))
    ELSE LET tool_name == Get(params.name, NONE)
         IN IF ~tool_exists(tool_name)
              THEN Returned(ErrorEnvelope(msg_id, -32601, ToolNotFoundText(tool_name)))
              ELSE Outcome("await", NoEnvelope, FALSE, <<>>)

OnResourcesList(msg_id) == Returned(ResultEnvelope(msg_id, [resources |-> <<>>]))

OnPromptsList(msg_id) == Returned(ErrorEnvelope(msg_id, -32601, <<"Method not found">>))

OnOtherMethod(msg_id, method) ==
  Returned(ErrorEnvelope(msg_id, -32601, MethodNotFoundText(method)))

HandleJsonrpcMessage(message) ==
  IF message.kind # "object"
    THEN Outcome("raised", NoEnvelope, FALSE, AttributeErrorText(message.kind))
    ELSE LET method == Get(message.method, NONE)
             msg_id == Get(message.id, NONE)
             params == IF message.params.kind = "absent" THEN EmptyMapping ELSE message.params
         IN CASE method = "initialize" -> OnInitialize(msg_id)
              [] method = "notifications/initialized" -> OnNotificationsInitialized(msg_id)
              [] method = "tools/list" -> OnToolsList(msg_id)
              [] method = "tools/call" -> OnToolsCall(msg_id, params)
              [] method = "resources/list" -> OnResourcesList(msg_id)
              [] method = "prompts/list" -> OnPromptsList(msg_id)
              [] OTHER -> OnOtherMethod(msg_id, method)

(* A dispatcher that serves only initialize until the session is           *)
(* initialized.                                                            *)
Dispatch_gated(session, message) ==
  IF message.kind = "object" /\ Get(message.method, NONE) # "initialize" /\ ~session.initialized
    THEN [outcome |-> Returned(ErrorEnvelope(Get(message.id, NONE), -32002,
                                             <<"Server not initialized">>)),
          session |-> session]
    ELSE [outcome |-> HandleJsonrpcMessage(message),
          session |-> IF HandleJsonrpcMessage(message).init
                        THEN [session EXCEPT !.initialized = TRUE]
                        ELSE session]

(* _handle_jsonrpc_message(session, message) up to its first await: what   *)
(* it returns and what it leaves of the session object it was given.  The  *)
(* only statement that touches the session is line 90.                     *)
Dispatch(session, message) ==
  [outcome |-> HandleJsonrpcMessage(message),
   session |-> IF HandleJsonrpcMessage(message).init
                 THEN [session EXCEPT !.initialized = TRUE]
                 ELSE session]

(* An error path that reports a fixed text instead of str(e).              *)
AfterToolCall_generic(msg_id, outcome) ==
  CASE outcome.kind = "raise" -> ErrorEnvelope(msg_id, -32603, <<"Internal error">>)
    [] outcome.kind = "str" -> ResultEnvelope(msg_id, TextContentResult(outcome.val))
    [] OTHER ->
         IF JsonDumpsRaises(outcome)
           THEN ErrorEnvelope(msg_id, -32603, <<"Internal error">>)
           ELSE ResultEnvelope(msg_id, TextContentResult(JsonDumpsIndent2(outcome)))

(* The rest of the tools/call branch, after handle_tool_call came back.    *)
AfterToolCall(msg_id, outcome) ==
  CASE outcome.kind = "raise" -> ErrorEnvelope(msg_id, -32603, outcome.val)
    [] outcome.kind = "str" -> ResultEnvelope(msg_id, TextContentResult(outcome.val))
    [] OTHER ->
         IF JsonDumpsRaises(outcome)
           THEN ErrorEnvelope(msg_id, -32603, TypeErrorTextOf(outcome))
           ELSE ResultEnvelope(msg_id, TextContentResult(JsonDumpsIndent2(outcome)))

(* `if response:` in messages_handler.                                     *)
Truthy(response) == response # NoEnvelope

(* `await request.json()` raises json.JSONDecodeError on a body that is    *)
(* not JSON text; a handler without the except clause of line 277 never    *)
(* sees that failure as such.                                              *)
JsonDecodeFails_never(body) == FALSE

JsonDecodeFails(body) == body.kind = "invalid"

(* A handler that blames the client for every failure.                     *)
FailureStatus_bad_request(exc) == 400

(* `except Exception as e:` of lines 282-286.                              *)
FailureStatus(exc) == 500

(* A handler that answers 202 only when it queued a response.              *)
AcceptedStatus_if_queued(response) == IF Truthy(response) THEN 202 ELSE 204

(* `return web.Response(status=202, text="Accepted")`, after the `if`.     *)
AcceptedStatus(response) == 202

(* -------------------------- asyncio.Queue ------------------------------ *)
(* A queue item is the envelope; post is the number of the POST that put   *)
(* it, kept to tell the items apart.                                       *)
QueueItem(env, post) == [env |-> env, post |-> post]

(* A put at the front of the queue.                                        *)
QueuePut_front(queue, item) == <<item>> \o queue

(* A put that keeps the queue in the order in which the POSTs arrived.     *)
QueuePut_by_arrival(queue, item) ==
  SelectSeq(queue, LAMBDA x : x.post < item.post) \o <<item>>
    \o SelectSeq(queue, LAMBDA x : x.post >= item.post)

QueuePut(queue, item) == Append(queue, item)

(* `asyncio.Queue()` of line 27: maxsize defaults to 0, an unbounded queue. *)
QueueMaxsize == 0

(* The full() of a queue built with maxsize=1.                             *)
QueueFull_bounded(queue) == Len(queue) >= 1

(* Queue.full(): never, unless maxsize is positive.  put() suspends only   *)
(* while the queue is full.                                                *)
QueueFull(queue) == QueueMaxsize > 0 /\ Len(queue) >= QueueMaxsize

QueueFront(queue) == Head(queue)

(* A get that empties the queue.                                           *)
QueueRest_clear(queue) == << >>

QueueRest(queue) == Tail(queue)

(* ----------------------------- SSE events ------------------------------ *)
(* An endpoint event that leaves the session id out.                       *)
EndpointEvent_no_id(session_id) ==
  [event |-> "endpoint", data |-> <<"/messages?sessionId=">>, post |-> 0]

EndpointEvent(session_id) ==
  [event |-> "endpoint", data |-> <<"/messages?sessionId=", session_id>>, post |-> 0]

MessageEvent(item) ==
  [event |-> "message", data |-> <<"json.dumps:", item.env>>, post |-> item.post]

(* A keepalive sent as an empty message event.                             *)
KeepaliveComment_as_message == [event |-> "message", data |-> <<>>, post |-> 0]

KeepaliveComment == [event |-> ": keepalive", data |-> <<>>, post |-> 0]

(* `timeout=30` of the wait_for of line 237.                               *)
KeepaliveTimeout == 30

NoItem == QueueItem(NoEnvelope, 0)

(* ----------------------- _discover_person_ids -------------------------- *)
(* str.lower() on the characters the names and terms are made of.          *)
Lower(c) == CASE c = "A" -> "a" [] c = "B" -> "b" [] OTHER -> c

LowerSeq(str) == [k \in 1..Len(str) |-> Lower(str[k])]

(* `sub in str` of two Python strings.                                     *)
Contains(sub, str) ==
  \E start \in 0..(Len(str) - Len(sub)) :
    \A k \in 1..Len(sub) : str[start + k] = sub[k]

(* The values of dw.get_filter_values(realm='Jobs', dimension='person').   *)
People ==
  { [name |-> <<"A", "b">>, id |-> "1"],
    [name |-> <<"a">>, id |-> "2"],
    [name |-> <<"B">>, id |-> "3"] }

PersonLists == UNION { [1..n -> People] : n \in 0..MaxPersons }

SearchTerms == { << >>, <<"a">>, <<"A", "B">>, <<"b">> }

Limits == -1..MaxLimit

(* The record of a call: the arguments, the list the warehouse returned    *)
(* and the matches the result text shows.                                  *)
Discovery(pc, search_term, limit, person_filters, matches) ==
  [pc |-> pc, search_term |-> search_term, limit |-> limit,
   person_filters |-> person_filters, matches |-> matches]

NoDiscovery == Discovery("idle", << >>, 0, << >>, << >>)

(* `if not search_term or search_term.lower() in name.lower()`             *)
Matches(search_term, name) ==
  search_term = << >> \/ Contains(LowerSeq(search_term), LowerSeq(name))

(* The loop of lines 521-532, from the k-th person on.                     *)
RECURSIVE Scan(_, _, _, _, _)
Scan(person_filters, k, matches, search_term, limit) ==
  IF k > Len(person_filters)
    THEN matches
    ELSE LET name == person_filters[k].name
             pid == person_filters[k].id
         IN IF Matches(search_term, name)
              THEN LET appended == Append(matches, [name |-> name, pid |-> pid])
                   IN IF Len(appended) >= limit
                        THEN appended
                        ELSE Scan(person_filters, k + 1, appended, search_term, limit)
              ELSE Scan(person_filters, k + 1, matches, search_term, limit)

(* Lines 498-502: the arguments are read; without a token the call ends.   *)
DiscoverCall(search_term, limit, api_token) ==
  /\ discovery.pc \in {"idle", "done"}
  /\ discovery' = Discovery(IF api_token THEN "warehouse" ELSE "done",
                            search_term, limit, << >>, << >>)
  /\ UNCHANGED <<sessions, objs, ssePc, inhand, emitted, enqueued, posts, toolCalls,
                 now, waitStart, opened, rests, listings>>

(* Lines 508-538: the warehouse returned person_filters.                   *)
DiscoverFiltered(person_filters) ==
  /\ discovery.pc = "warehouse"
  /\ discovery' = Discovery("done", discovery.search_term, discovery.limit, person_filters,
                            Scan(person_filters, 1, << >>, discovery.search_term,
                                 discovery.limit))
  /\ UNCHANGED <<sessions, objs, ssePc, inhand, emitted, enqueued, posts, toolCalls,
                 now, waitStart, opened, rests, listings>>

(* Lines 540-541: the framework raised.                                    *)
DiscoverFrameworkError ==
  /\ discovery.pc = "warehouse"
  /\ discovery' = Discovery("done", discovery.search_term, discovery.limit, << >>, << >>)
  /\ UNCHANGED <<sessions, objs, ssePc, inhand, emitted, enqueued, posts, toolCalls,
                 now, waitStart, opened, rests, listings>>

(* ------------------------------- Init ---------------------------------- *)
Init ==
  /\ sessions = << >>
  /\ objs = << >>
  /\ ssePc = << >>
  /\ inhand = << >>
  /\ emitted = << >>
  /\ enqueued = << >>
  /\ posts = << >>
  /\ toolCalls = 0
  /\ now = 0
  /\ waitStart = << >>
  /\ opened = << >>
  /\ rests = << >>
  /\ discovery = NoDiscovery
  /\ listings = << >>

Created == DOMAIN objs

(* An id drawn from the number of the sessions in the table.               *)
Uuid4_live == Cardinality(DOMAIN sessions) + 1

(* str(uuid.uuid4()): an id no earlier call returned.                      *)
Uuid4 == Cardinality(Created) + 1

(* A session object registered before its initialized attribute is set.    *)
SSESession_partial(session_id) == [session_id |-> session_id, queue |-> << >>]

SSESession(session_id) == [session_id |-> session_id, queue |-> << >>, initialized |-> FALSE]

(* ------------------------------ sse_handler ---------------------------- *)
(* Lines 213-215, up to `await response.prepare(request)`.                 *)
SseConnect(maxSessions) ==
  /\ Cardinality(Created) < maxSessions
  /\ LET session_id == Uuid4
     IN /\ objs' = objs @@ (session_id :> SSESession(session_id))
        /\ sessions' = sessions @@ (session_id :> session_id)
        /\ ssePc' = ssePc @@ (session_id :> "prepare")
        /\ inhand' = inhand @@ (session_id :> NoItem)
        /\ emitted' = emitted @@ (session_id :> << >>)
        /\ enqueued' = enqueued @@ (session_id :> << >>)
        /\ waitStart' = waitStart @@ (session_id :> now)
        /\ opened' = opened @@ (session_id :> now)
  /\ UNCHANGED <<posts, toolCalls, now, rests, discovery, listings>>

(* `await response.prepare(request)` completed.                            *)
SsePrepared(s) ==
  /\ ssePc[s] = "prepare"
  /\ ssePc' = [ssePc EXCEPT ![s] = "endpoint"]
  /\ UNCHANGED <<sessions, objs, inhand, emitted, enqueued, posts, toolCalls, now, waitStart, opened, rests, discovery, listings>>

(* `await response.write(endpoint_event)` completed; the loop starts.      *)
SseEndpointSent(s) ==
  /\ ssePc[s] = "endpoint"
  /\ waitStart' = [waitStart EXCEPT ![s] = now]
  /\ emitted' = [emitted EXCEPT ![s] = Append(@, EndpointEvent(objs[s].session_id))]
  /\ ssePc' = [ssePc EXCEPT ![s] = "wait"]
  /\ UNCHANGED <<sessions, objs, inhand, enqueued, posts, toolCalls, now, opened, rests, discovery, listings>>

(* An exception (ConnectionResetError, CancelledError) raised by the       *)
(* awaits of lines 226 and 230, which are outside the try/finally.         *)
SseAbortBeforeLoop(s) ==
  /\ ssePc[s] \in {"prepare", "endpoint"}
  /\ ssePc' = [ssePc EXCEPT ![s] = "terminated"]
  /\ UNCHANGED <<sessions, objs, inhand, emitted, enqueued, posts, toolCalls, now, waitStart, opened, rests, discovery, listings>>

(* wait_for(session.queue.get(), timeout=30) returned an item.             *)
SseGet(s) ==
  /\ ssePc[s] = "wait"
  /\ objs[s].queue # << >>
  /\ inhand' = [inhand EXCEPT ![s] = QueueFront(objs[s].queue)]
  /\ objs' = [objs EXCEPT ![s].queue = QueueRest(@)]
  /\ ssePc' = [ssePc EXCEPT ![s] = "write_message"]
  /\ UNCHANGED <<sessions, emitted, enqueued, posts, toolCalls, now, waitStart, opened, rests, discovery, listings>>

(* `await response.write(event_data)` completed.                           *)
SseWriteMessage(s) ==
  /\ ssePc[s] = "write_message"
  /\ waitStart' = [waitStart EXCEPT ![s] = now]
  /\ emitted' = [emitted EXCEPT ![s] = Append(@, MessageEvent(inhand[s]))]
  /\ inhand' = [inhand EXCEPT ![s] = NoItem]
  /\ ssePc' = [ssePc EXCEPT ![s] = "wait"]
  /\ UNCHANGED <<sessions, objs, enqueued, posts, toolCalls, now, opened, rests, discovery, listings>>

Keepalives(s) ==
  Cardinality({k \in 1..Len(emitted[s]) : emitted[s][k].event = KeepaliveComment.event})

(* wait_for raised asyncio.TimeoutError: the queue stayed empty.           *)
SseTimeout(s) ==
  /\ ssePc[s] = "wait"
  /\ objs[s].queue = << >>
  /\ Keepalives(s) < MaxKeepalives
  /\ ssePc' = [ssePc EXCEPT ![s] = "write_keepalive"]
  /\ UNCHANGED <<sessions, objs, inhand, emitted, enqueued, posts, toolCalls, now, waitStart, opened, rests, discovery, listings>>

(* `await response.write(b": keepalive\n\n")` completed.                   *)
SseWriteKeepalive(s) ==
  /\ ssePc[s] = "write_keepalive"
  /\ waitStart' = [waitStart EXCEPT ![s] = now]
  /\ emitted' = [emitted EXCEPT ![s] = Append(@, KeepaliveComment)]
  /\ ssePc' = [ssePc EXCEPT ![s] = "wait"]
  /\ UNCHANGED <<sessions, objs, inhand, enqueued, posts, toolCalls, now, opened, rests, discovery, listings>>

(* A removal that drops some entry when the id is not in the table.        *)
RemoveSession_pop(table, session_id) ==
  IF session_id \in DOMAIN table
    THEN [k \in DOMAIN table \ {session_id} |-> table[k]]
    ELSE IF DOMAIN table = {}
           THEN table
           ELSE [k \in DOMAIN table \ {CHOOSE x \in DOMAIN table : TRUE} |-> table[k]]

(* `if session_id in self._sessions: del self._sessions[session_id]`       *)
RemoveSession(table, session_id) ==
  IF session_id \in DOMAIN table
    THEN [k \in DOMAIN table \ {session_id} |-> table[k]]
    ELSE table

(* An end of the stream that also cancels the tool calls of the session.   *)
SseLoopExit_cancelling(s) ==
  /\ ssePc[s] \in {"wait", "write_message", "write_keepalive"}
  /\ sessions' = RemoveSession(sessions, objs[s].session_id)
  /\ ssePc' = [ssePc EXCEPT ![s] = "terminated"]
  /\ inhand' = [inhand EXCEPT ![s] = NoItem]
  /\ posts' = [i \in 1..Len(posts) |->
                 IF posts[i].session = s /\ posts[i].pc = "tool"
                   THEN [posts[i] EXCEPT !.pc = "done", !.status = 500, !.out = "raised",
                                         !.exc = <<"CancelledError">>]
                   ELSE posts[i]]
  /\ UNCHANGED <<objs, emitted, enqueued, toolCalls, now, waitStart, opened, rests, discovery, listings>>

(* CancelledError or ConnectionResetError raised at an await inside the    *)
(* loop: caught by line 243, then the finally clause removes the session.  *)
SseLoopExit(s) ==
  /\ ssePc[s] \in {"wait", "write_message", "write_keepalive"}
  /\ sessions' = RemoveSession(sessions, objs[s].session_id)
  /\ ssePc' = [ssePc EXCEPT ![s] = "terminated"]
  /\ inhand' = [inhand EXCEPT ![s] = NoItem]
  /\ UNCHANGED <<objs, emitted, enqueued, posts, toolCalls, now, waitStart, opened, rests, discovery, listings>>

(* --------------------------- messages_handler -------------------------- *)
Unread ==
  [kind |-> "unread", method |-> ABSENT, id |-> ABSENT,
   params |-> NoParams]

(* The record of one POST /messages: the sessionId of its query, the       *)
(* session object it holds, its position ("put": suspended in the put of   *)
(* line 272 on a full queue), the body it read, the outcome of             *)
(* its dispatch and the HTTP status it answered (0: none yet); calls counts *)
(* the handle_tool_call invocations it made and tool is what the           *)
(* invocation did.                                                         *)
Post(sid, session, pc, msg, out, resp, status, exc, calls, tool) ==
  [sid |-> sid, session |-> session, pc |-> pc, msg |-> msg, out |-> out,
   resp |-> resp, status |-> status, exc |-> exc, calls |-> calls, tool |-> tool]

NoOutcome == [kind |-> "none", val |-> << >>]

SessionFound(table, session_id) == session_id # NoSessionId /\ session_id \in DOMAIN table

(* A lookup that still finds the sessions whose handler has ended.         *)
PostLookup_stale(q, maxPosts) ==
  /\ Len(posts) < maxPosts
  /\ posts' = Append(posts,
       IF ~SessionFound(objs, q)
         THEN Post(q, NoSessionId, "done", Unread, "notdispatched", NoEnvelope, 404, << >>, 0, NoOutcome)
         ELSE Post(q, q, "read", Unread, "pending", NoEnvelope, 0, << >>, 0, NoOutcome))
  /\ UNCHANGED <<sessions, objs, ssePc, inhand, emitted, enqueued, toolCalls, now, waitStart, opened, rests, discovery, listings>>

(* Lines 254-262, up to `await request.json()`.                            *)
PostLookup(q, maxPosts) ==
  /\ Len(posts) < maxPosts
  /\ posts' = Append(posts,
       IF ~SessionFound(sessions, q)
         THEN Post(q, NoSessionId, "done", Unread, "notdispatched", NoEnvelope, 404, << >>, 0, NoOutcome)
         ELSE Post(q, sessions[q], "read", Unread, "pending", NoEnvelope, 0, << >>, 0, NoOutcome))
  /\ UNCHANGED <<sessions, objs, ssePc, inhand, emitted, enqueued, toolCalls, now, waitStart, opened, rests, discovery, listings>>

(* A put on the queue of every session.                                    *)
Enqueue_broadcast(heap, session, response, post) ==
  [s \in DOMAIN heap |-> [heap[s] EXCEPT !.queue = QueuePut(@, QueueItem(response, post))]]

(* A put that falls back on the sessions of the table when its own session *)
(* is no longer there.                                                     *)
Enqueue_fallback(heap, session, response, post) ==
  IF session \in DOMAIN sessions
    THEN [heap EXCEPT ![session].queue = QueuePut(@, QueueItem(response, post))]
    ELSE [s \in DOMAIN heap |->
            IF s \in DOMAIN sessions
              THEN [heap[s] EXCEPT !.queue = QueuePut(@, QueueItem(response, post))]
              ELSE heap[s]]

(* `await session.queue.put(response)` on the unbounded queue.             *)
Enqueue(heap, session, response, post) ==
  [heap EXCEPT ![session].queue = QueuePut(@, QueueItem(response, post))]

(* Lines 265-286: the body is read, and dispatched up to the answer or up  *)
(* to the await of handle_tool_call.                                       *)
PostDispatch(i, body) ==
  /\ posts[i].pc = "read"
  /\ LET session == posts[i].session
         o == Dispatch(objs[session], body).outcome
         response == o.out = "envelope" /\ Truthy(o.resp)
         blocked == response /\ QueueFull(objs[session].queue)
         put == response /\ ~blocked
         marked == [objs EXCEPT ![session] = Dispatch(objs[session], body).session]
     IN IF JsonDecodeFails(body)
          THEN /\ posts' = [posts EXCEPT ![i] =
                    Post(@.sid, session, "done", body, "notdispatched", NoEnvelope, 400, << >>,
                         0, NoOutcome)]
               /\ UNCHANGED <<objs, enqueued, toolCalls>>
          ELSE /\ posts' = [posts EXCEPT ![i] =
                    CASE o.out = "raised" ->
                           Post(@.sid, session, "done", body, "raised", NoEnvelope,
                                FailureStatus(o.exc), o.exc, 0, NoOutcome)
                      [] o.out = "await" ->
                           Post(@.sid, session, "tool", body, "pending", NoEnvelope, 0, << >>,
                                1, NoOutcome)
                      [] OTHER ->
                           Post(@.sid, session, IF blocked THEN "put" ELSE "done", body,
                                o.out, o.resp,
                                IF blocked THEN 0 ELSE AcceptedStatus(o.resp), << >>,
                                0, NoOutcome)]
               /\ objs' = IF put THEN Enqueue(marked, session, o.resp, i) ELSE marked
               /\ enqueued' = IF put
                                THEN [enqueued EXCEPT ![session] = Append(@, QueueItem(o.resp, i))]
                                ELSE enqueued
               /\ toolCalls' = IF o.out = "await" THEN toolCalls + 1 ELSE toolCalls
  /\ UNCHANGED <<sessions, ssePc, inhand, emitted, now, waitStart, opened, rests, discovery, listings>>

(* handle_tool_call came back (or raised): lines 147-159 or 188-196, then  *)
(* lines 270-275.                                                          *)
PostToolReturn(i, outcome) ==
  /\ posts[i].pc = "tool"
  /\ LET session == posts[i].session
         response == AfterToolCall(Get(posts[i].msg.id, NONE), outcome)
         blocked == Truthy(response) /\ QueueFull(objs[session].queue)
         put == Truthy(response) /\ ~blocked
     IN /\ posts' = [posts EXCEPT ![i] =
             Post(@.sid, session, IF blocked THEN "put" ELSE "done", @.msg, "envelope",
                  response, IF blocked THEN 0 ELSE AcceptedStatus(response), << >>,
                  @.calls, outcome)]
        /\ objs' = IF put THEN Enqueue(objs, session, response, i) ELSE objs
        /\ enqueued' = IF put
                         THEN [enqueued EXCEPT ![session] = Append(@, QueueItem(response, i))]
                         ELSE enqueued
  /\ UNCHANGED <<sessions, ssePc, inhand, emitted, toolCalls, now, waitStart, opened, rests, discovery, listings>>

(* ------------------------------ execute_tool --------------------------- *)
(* The request of a POST /tools/{tool_name}: its Content-Type and its      *)
(* body (absent, text that is not JSON, a JSON array, a JSON object with   *)
(* or without an arguments member).                                        *)
RestBody(ctype, kind, arguments) == [ctype |-> ctype, kind |-> kind, arguments |-> arguments]

RestBodies ==
  { RestBody("application/octet-stream", "absent", ABSENT),
    RestBody("text/plain", "invalid", ABSENT),
    RestBody("application/json", "invalid", ABSENT),
    RestBody("application/json", "array", ABSENT),
    RestBody("application/json", "object", ABSENT),
    RestBody("application/json", "object", "args") }

RestToolNames == {"get_user_data", "missing_tool"}

(* The tools/call requests sent next to them.                              *)
RestRpcBodies ==
  { m \in Messages : /\ m.method = "tools/call"
                     /\ m.id = "1"
                     /\ m.params.kind = "object"
                     /\ m.params.name \in RestToolNames }

(* The record of one POST /tools/{tool_name}: its position, the HTTP       *)
(* status it answered (0: none yet) with the content or the error of the   *)
(* answer, the handle_tool_call invocations it made, the arguments it      *)
(* passed and what the invocation did.                                     *)
Rest(tool_name, body, pc, status, content, error, calls, arguments, tool) ==
  [tool_name |-> tool_name, body |-> body, pc |-> pc, status |-> status,
   content |-> content, error |-> error, calls |-> calls, arguments |-> arguments,
   tool |-> tool]

(* Lines 306-310: the arguments, or the exception raised on the way.       *)
RestParse(body) ==
  IF body.ctype # "application/json"
    THEN [ok |-> TRUE, arguments |-> EmptyArguments, exc |-> << >>]
    ELSE IF JsonDecodeFails(body)
           THEN [ok |-> FALSE, arguments |-> ABSENT, exc |-> JsonDecodeErrorText]
           ELSE IF body.kind # "object"
                  THEN [ok |-> FALSE, arguments |-> ABSENT, exc |-> AttributeErrorText(body.kind)]
                  ELSE [ok |-> TRUE, arguments |-> Get(body.arguments, EmptyArguments),
                        exc |-> << >>]

(* An exception that escapes the handler: the framework's own 500.         *)
RestFailure_escaped(e) == [status |-> 500, error |-> <<"500 Internal Server Error">>]

(* Lines 334-338.                                                          *)
RestFailure(e) == [status |-> 500, error |-> e]

(* Lines 303-320, up to `await self.handle_tool_call(...)`.  The body is   *)
(* read in the same step: reading it touches nothing of the server.        *)
RestReceive(tool_name, body, maxRests) ==
  /\ Len(rests) < maxRests
  /\ LET parse == RestParse(body)
         invoked == parse.ok /\ tool_exists(tool_name)
     IN /\ rests' = Append(rests,
             IF ~parse.ok
               THEN Rest(tool_name, body, "done", RestFailure(parse.exc).status, << >>,
                         RestFailure(parse.exc).error, 0, ABSENT, NoOutcome)
               ELSE IF ~tool_exists(tool_name)
                      THEN Rest(tool_name, body, "done", 404, << >>,
                                ToolNotFoundText(tool_name), 0, ABSENT, NoOutcome)
                      ELSE Rest(tool_name, body, "tool", 0, << >>, << >>, 1,
                                parse.arguments, NoOutcome))
        /\ toolCalls' = IF invoked THEN toolCalls + 1 ELSE toolCalls
  /\ UNCHANGED <<sessions, objs, ssePc, inhand, emitted, enqueued, posts,
                 now, waitStart, opened, discovery, listings>>

(* Lines 324-330.                                                          *)
RestContentRaises(result) == result.kind \notin {"textlist", "str"} /\ JsonDumpsRaises(result)

RestContent(result) ==
  CASE result.kind = "textlist" -> << [type |-> "text", text |-> result.val] >>
    [] result.kind = "str" -> << [type |-> "text", text |-> result.val] >>
    [] OTHER -> << [type |-> "text", text |-> JsonDumpsIndent2(result)] >>

(* handle_tool_call came back (or raised): lines 322-338.                  *)
RestToolReturn(j, outcome) ==
  /\ rests[j].pc = "tool"
  /\ rests' = [rests EXCEPT ![j] =
       CASE outcome.kind = "raise" ->
              Rest(@.tool_name, @.body, "done", RestFailure(outcome.val).status, << >>,
                   RestFailure(outcome.val).error, @.calls, @.arguments, outcome)
         [] outcome.kind # "raise" /\ RestContentRaises(outcome) ->
              Rest(@.tool_name, @.body, "done", RestFailure(TypeErrorTextOf(outcome)).status,
                   << >>, RestFailure(TypeErrorTextOf(outcome)).error, @.calls, @.arguments,
                   outcome)
         [] OTHER ->
              Rest(@.tool_name, @.body, "done", 200, RestContent(outcome), << >>,
                   @.calls, @.arguments, outcome)]
  /\ UNCHANGED <<sessions, objs, ssePc, inhand, emitted, enqueued, posts, toolCalls,
                 now, waitStart, opened, discovery, listings>>

(* ------------------------------- list_tools --------------------------- *)
(* A listing that leaves the input schemas out.                            *)
ListToolsData_no_schema ==
  [i \in 1..Len(get_tools) |->
     [name |-> get_tools[i].name, description |-> get_tools[i].description]]

(* The comprehension of lines 291-298 over `tools = self.get_tools()`.     *)
ListToolsData ==
  [i \in DOMAIN get_tools |->
     [name |-> get_tools[i].name,
      description |-> get_tools[i].description,
      inputSchema |-> get_tools[i].inputSchema]]

(* `web.json_response({"tools": tools_data})`.                             *)
ListToolsResponse == [status |-> 200, body |-> [tools |-> ListToolsData]]

(* A GET /tools: the handler has no await, it answers in one step.         *)
RestListTools(maxLists) ==
  /\ Len(listings) < maxLists
  /\ listings' = Append(listings, ListToolsResponse)
  /\ UNCHANGED <<sessions, objs, ssePc, inhand, emitted, enqueued, posts, toolCalls,
                 now, waitStart, opened, rests, discovery>>

(* ------------------------------- Next ---------------------------------- *)
SseStep ==
  \/ \E s \in Created : SsePrepared(s)
  \/ \E s \in Created : SseEndpointSent(s)
  \/ \E s \in Created : SseAbortBeforeLoop(s)
  \/ \E s \in Created : SseGet(s)
  \/ \E s \in Created : SseWriteMessage(s)
  \/ \E s \in Created : SseTimeout(s)
  \/ \E s \in Created : SseWriteKeepalive(s)
  \/ \E s \in Created : SseLoopExit(s)

Next ==
  \/ SseConnect(MaxSessions)
  \/ SseStep
  \/ \E q \in 0..MaxSessions : PostLookup(q, MaxPosts)
  \/ \E i \in 1..Len(posts) : \E body \in SmallBodies : PostDispatch(i, body)
  \/ \E i \in 1..Len(posts) : \E outcome \in SmallOutcomes : PostToolReturn(i, outcome)

Spec == Init /\ [][Next]_vars

(* The server receiving, on one session, an initialize and the requests    *)
(* whose method has no branch of its own or is prompts/list.               *)
MethodBodies ==
  { m \in Messages : /\ m.kind = "object"
                     /\ m.params = NoParams
                     /\ \/ m.method = "initialize" /\ m.id = "1"
                        \/ m.method \in {"prompts/list", "foo/bar", ABSENT} /\ m.id # "2" }

NextMethods ==
  \/ SseConnect(DispatchSessions)
  \/ \E s \in Created : SsePrepared(s)
  \/ \E s \in Created : SseEndpointSent(s)
  \/ \E s \in Created : SseGet(s)
  \/ \E s \in Created : SseWriteMessage(s)
  \/ \E q \in 1..DispatchSessions : PostLookup(q, MaxPosts)
  \/ \E i \in 1..Len(posts) : \E body \in MethodBodies : PostDispatch(i, body)

SpecMethods == Init /\ [][NextMethods]_vars

(* The server receiving, on two sessions, an initialize and requests that  *)
(* are dispatched before it and after it.                                  *)
FrameBodies ==
  { m \in Messages : /\ m.kind = "object"
                     /\ \/ /\ m.params = NoParams
                           /\ \/ m.method = "initialize" /\ m.id = "1"
                              \/ /\ m.method \in {"tools/list", "notifications/initialized"}
                                 /\ m.id = "2"
                        \/ /\ m.method = "tools/call"
                           /\ m.id = "2"
                           /\ m.params.kind = "object"
                           /\ m.params.name = "get_user_data"
                           /\ m.params.arguments = ABSENT }

NextFrame ==
  \/ SseConnect(FrameSessions)
  \/ \E s \in Created : SsePrepared(s)
  \/ \E s \in Created : SseEndpointSent(s)
  \/ \E s \in Created : SseLoopExit(s)
  \/ \E q \in 1..FrameSessions : PostLookup(q, FramePosts)
  \/ \E i \in 1..Len(posts) : \E body \in FrameBodies : PostDispatch(i, body)
  \/ \E i \in 1..Len(posts) : \E outcome \in SmallOutcomes : PostToolReturn(i, outcome)

SpecFrame == Init /\ [][NextFrame]_vars

(* The server listing its tools and checking tool names on both of its    *)
(* interfaces: tools/list and tools/call next to GET /tools and            *)
(* POST /tools/{tool_name}.                                                *)
ToolsRpcBodies ==
  { m \in Messages : /\ m.kind = "object"
                     /\ m.id = "1"
                     /\ \/ m.method = "tools/list" /\ m.params = NoParams
                        \/ /\ m.method = "tools/call"
                           /\ m.params.kind = "object"
                           /\ m.params.arguments = ABSENT }

ToolsRestNames == ToolNames \cup {"missing_tool"}

ToolsRestBodies == {b \in RestBodies : b.arguments = ABSENT}

ToolsOutcomes == {o \in ToolOutcomes : o.kind \in {"str", "raise"}}

NextTools ==
  \/ SseConnect(ToolsSessions)
  \/ \E q \in 1..ToolsSessions : PostLookup(q, ToolsPosts)
  \/ \E i \in 1..Len(posts) : \E body \in ToolsRpcBodies : PostDispatch(i, body)
  \/ \E i \in 1..Len(posts) : \E outcome \in ToolsOutcomes : PostToolReturn(i, outcome)
  \/ \E tool_name \in ToolsRestNames : \E body \in ToolsRestBodies :
       RestReceive(tool_name, body, ToolsCalls)
  \/ \E j \in 1..Len(rests) : \E outcome \in ToolsOutcomes : RestToolReturn(j, outcome)
  \/ RestListTools(ToolsLists)

SpecTools == Init /\ [][NextTools]_vars

(* Calls of the discover_person_ids tool.                                  *)
NextDiscover ==
  \/ \E search_term \in SearchTerms : \E limit \in Limits : \E api_token \in BOOLEAN :
       DiscoverCall(search_term, limit, api_token)
  \/ \E person_filters \in PersonLists : DiscoverFiltered(person_filters)
  \/ DiscoverFrameworkError

SpecDiscover == Init /\ [][NextDiscover]_vars

(* The server with its REST endpoint next to the JSON-RPC one.             *)
NextRest ==
  \/ SseConnect(RestSessions)
  \/ \E s \in Created : SsePrepared(s)
  \/ \E s \in Created : SseEndpointSent(s)
  \/ \E s \in Created : SseGet(s)
  \/ \E s \in Created : SseWriteMessage(s)
  \/ \E q \in 1..RestSessions : PostLookup(q, RestPosts)
  \/ \E i \in 1..Len(posts) : \E body \in RestRpcBodies : PostDispatch(i, body)
  \/ \E i \in 1..Len(posts) : \E outcome \in RestOutcomes : PostToolReturn(i, outcome)
  \/ \E tool_name \in RestToolNames : \E body \in RestBodies :
       RestReceive(tool_name, body, RestCalls)
  \/ \E j \in 1..Len(rests) : \E outcome \in RestOutcomes : RestToolReturn(j, outcome)

SpecRest == Init /\ [][NextRest]_vars

(* ------------------------------ timed runs ----------------------------- *)
(* The timeout of wait_for fires when the wait has lasted KeepaliveTimeout. *)
SseTimeoutAt(s) ==
  /\ now - waitStart[s] >= KeepaliveTimeout
  /\ SseTimeout(s)

(* One unit of time passes.  Only a pending wait_for on an empty queue     *)
(* takes time in a /sse handler: its other steps are ready to run and the  *)
(* event loop runs them first, and the timeout fires when it is due.       *)
Tick ==
  /\ now < MaxTime
  /\ \A s \in Created :
       \/ ssePc[s] = "terminated"
       \/ /\ ssePc[s] = "wait"
          /\ objs[s].queue = << >>
          /\ now - waitStart[s] < KeepaliveTimeout
  /\ now' = now + 1
  /\ UNCHANGED <<sessions, objs, ssePc, inhand, emitted, enqueued, posts, toolCalls,
                 waitStart, opened, rests, discovery, listings>>

NextTimed ==
  \/ SseConnect(TimedSessions)
  \/ \E s \in Created : SsePrepared(s)
  \/ \E s \in Created : SseEndpointSent(s)
  \/ \E s \in Created : SseGet(s)
  \/ \E s \in Created : SseWriteMessage(s)
  \/ \E s \in Created : SseTimeoutAt(s)
  \/ \E s \in Created : SseWriteKeepalive(s)
  \/ \E s \in Created : SseLoopExit(s)
  \/ \E q \in 0..TimedSessions : PostLookup(q, TimedPosts)
  \/ \E i \in 1..Len(posts) : \E body \in SmallBodies : PostDispatch(i, body)
  \/ \E i \in 1..Len(posts) : \E outcome \in SmallOutcomes : PostToolReturn(i, outcome)
  \/ Tick

SpecTimed == Init /\ [][NextTimed]_vars

(* The event loop runs every coroutine that is ready, and a write on a     *)
(* connection that stays open completes: each step of a /sse handler that  *)
(* stays possible is eventually taken.  A client may still disconnect at   *)
(* any time (SseLoopExit, SseAbortBeforeLoop), and no timeout has to fire. *)
SseFairness ==
  \A s \in 1..MaxSessions :
    /\ WF_vars(s \in Created /\ SsePrepared(s))
    /\ WF_vars(s \in Created /\ SseEndpointSent(s))
    /\ WF_vars(s \in Created /\ SseGet(s))
    /\ WF_vars(s \in Created /\ SseWriteMessage(s))
    /\ WF_vars(s \in Created /\ SseWriteKeepalive(s))

SpecLive == Init /\ [][Next]_vars /\ SseFairness

(* The same server, receiving every request shape of Bodies.               *)
NextDispatch ==
  \/ SseConnect(DispatchSessions)
  \/ \E s \in Created : SsePrepared(s)
  \/ \E s \in Created : SseEndpointSent(s)
  \/ \E s \in Created : SseGet(s)
  \/ \E s \in Created : SseWriteMessage(s)
  \/ \E s \in Created : SseLoopExit(s)
  \/ \E q \in 0..DispatchSessions : PostLookup(q, DispatchPosts)
  \/ \E i \in 1..Len(posts) : \E body \in Bodies : PostDispatch(i, body)
  \/ \E i \in 1..Len(posts) : \E outcome \in ToolOutcomes : PostToolReturn(i, outcome)

SpecDispatch == Init /\ [][NextDispatch]_vars

(* ======================= properties of the dispatcher =================== *)
Dispatched(i) == posts[i].msg.kind = "object"

RequestId(msg) == IF msg.id = ABSENT THEN NONE ELSE msg.id

RequestedTool(msg) ==
  IF msg.params.kind = "absent" \/ msg.params.name = ABSENT THEN NONE ELSE msg.params.name

IsToolsCall(msg) ==
  /\ msg.kind = "object"
  /\ msg.method = "tools/call"
  /\ msg.params.kind \in {"absent", "object"}

EnvelopesOnQueues ==
  UNION {{enqueued[s][k].env : k \in 1..Len(enqueued[s])} : s \in Created}

(* The sessions on whose queue POST number i put an envelope.              *)
QueuedBy(i) ==
  {s \in Created : \E k \in 1..Len(enqueued[s]) : enqueued[s][k].post = i}

(* C1: a tools/call whose params.name is no registered tool is answered    *)
(* with error -32601 "Tool '<name>' not found", and handle_tool_call is    *)
(* not invoked for it: the invocation count stays what the other requests  *)
(* made it.                                                                *)
C1_UnknownToolNotInvoked ==
  /\ \A i \in 1..Len(posts) :
       (IsToolsCall(posts[i].msg) /\ RequestedTool(posts[i].msg) \notin ToolNames) =>
         /\ posts[i].pc = "done"
         /\ posts[i].out = "envelope"
         /\ posts[i].resp =
              [jsonrpc |-> "2.0", id |-> RequestId(posts[i].msg),
               error |-> [code |-> -32601,
                          message |-> <<"Tool '",
                                        IF RequestedTool(posts[i].msg) = NONE
                                          THEN "None" ELSE RequestedTool(posts[i].msg),
                                        "' not found">>]]
         /\ posts[i].calls = 0
  /\ toolCalls =
       Cardinality({i \in 1..Len(posts) :
                      IsToolsCall(posts[i].msg) /\ RequestedTool(posts[i].msg) \in ToolNames})

C1_Witness ==
  \E i \in 1..Len(posts) :
    /\ IsToolsCall(posts[i].msg)
    /\ RequestedTool(posts[i].msg) = "missing_tool"
    /\ posts[i].pc = "done"
    /\ posts[i].resp.jsonrpc = "2.0"
    /\ QueuedBy(i) # {}

(* C2: every response envelope carries the id of its request: the id as    *)
(* sent when the request has one, null (None) when it has none; and every  *)
(* dispatched request other than notifications/initialized ends with such  *)
(* an envelope, on the result, -32601 and -32603 paths alike.              *)
C2_IdEchoed ==
  \A i \in 1..Len(posts) :
    /\ posts[i].out = "envelope" =>
         /\ "id" \in DOMAIN posts[i].resp
         /\ posts[i].msg.id # ABSENT => posts[i].resp.id = posts[i].msg.id
         /\ posts[i].msg.id = ABSENT => posts[i].resp.id = NONE
    /\ (posts[i].pc = "done" /\ Dispatched(i)
        /\ posts[i].msg.method # "notifications/initialized") =>
         posts[i].out = "envelope"

C2_Witness ==
  \E i \in 1..Len(posts) :
    /\ posts[i].out = "envelope"
    /\ posts[i].msg.id = "2"
    /\ "error" \in DOMAIN posts[i].resp
    /\ posts[i].resp.error.code = -32603
    /\ posts[i].resp.id = "2"

(* C3: a notifications/initialized request produces no response envelope,  *)
(* whatever the initialized flag of its session, its id and its params,    *)
(* and its POST puts nothing on any session queue.                         *)
C3_NotificationSilent ==
  \A i \in 1..Len(posts) :
    (Dispatched(i) /\ posts[i].msg.method = "notifications/initialized") =>
      /\ posts[i].pc = "done"
      /\ posts[i].out = "nothing"
      /\ posts[i].resp = NoEnvelope
      /\ \A s \in Created : \A k \in 1..Len(enqueued[s]) : enqueued[s][k].post # i
      /\ \A s \in Created : \A k \in 1..Len(objs[s].queue) : objs[s].queue[k].post # i

C3_Witness ==
  \E i \in 1..Len(posts) :
    /\ Dispatched(i)
    /\ posts[i].msg.method = "notifications/initialized"
    /\ posts[i].msg.id = "1"
    /\ posts[i].msg.params.kind = "array"
    /\ objs[posts[i].session].initialized
    /\ posts[i].status = 202

(* C4: every response envelope the dispatcher produces, and so every       *)
(* envelope put on a session queue, has jsonrpc "2.0" and exactly one of   *)
(* the members result and error.                                           *)
WellFormedEnvelope(env) ==
  /\ "jsonrpc" \in DOMAIN env
  /\ env.jsonrpc = "2.0"
  /\ ("result" \in DOMAIN env) # ("error" \in DOMAIN env)

C4_EnvelopeShape ==
  /\ \A i \in 1..Len(posts) : posts[i].out = "envelope" => WellFormedEnvelope(posts[i].resp)
  /\ \A env \in EnvelopesOnQueues : WellFormedEnvelope(env)
  /\ \A s \in Created : \A k \in 1..Len(objs[s].queue) : WellFormedEnvelope(objs[s].queue[k].env)

C4_Witness ==
  /\ \E env \in EnvelopesOnQueues : "result" \in DOMAIN env
  /\ \E s \in Created : objs[s].queue # << >> /\ "result" \in DOMAIN objs[s].queue[1].env

(* C5: _handle_jsonrpc_message never raises, whatever parsed JSON value it *)
(* is handed: every dispatch ends with an envelope or with nothing.        *)
C5_DispatchNeverRaises ==
  \A i \in 1..Len(posts) : posts[i].out # "raised"

(* C6: when handle_tool_call fails, or its result cannot be serialised,    *)
(* the dispatcher answers error -32603 with the failure's description and  *)
(* the request id; the step leaves the session table and the initialized   *)
(* flags alone, and the session stays in the table for later requests as   *)
(* long as its SSE connection lives.                                       *)
ToolFailed(post) == post.tool.kind \in {"raise", "textlist"}

C6_FailureEnvelope ==
  \A i \in 1..Len(posts) :
    ToolFailed(posts[i]) =>
      /\ posts[i].pc = "done"
      /\ posts[i].status = 202
      /\ posts[i].resp =
           [jsonrpc |-> "2.0", id |-> RequestId(posts[i].msg),
            error |-> [code |-> -32603,
                       message |-> IF posts[i].tool.kind = "raise"
                                     THEN posts[i].tool.val
                                     ELSE <<"Object of type TextContent is not JSON serializable">>]]
      /\ ssePc[posts[i].session] # "terminated" => posts[i].session \in DOMAIN sessions

C6_FailureStep ==
  \A i \in 1..Len(posts) :
    (posts[i].pc = "tool" /\ ToolFailed(posts'[i])) =>
      /\ sessions' = sessions
      /\ \A s \in Created : objs'[s].initialized = objs[s].initialized

C6_ToolFailureIsInternalError == [](C6_FailureEnvelope) /\ [][C6_FailureStep]_vars

C6_Witness ==
  \E s \in DOMAIN sessions :
    /\ Len(enqueued[s]) = 2
    /\ ToolFailed(posts[enqueued[s][1].post])
    /\ enqueued[s][1].env.error.code = -32603
    /\ posts[enqueued[s][2].post].msg.method = "initialize"
    /\ "result" \in DOMAIN enqueued[s][2].env
    /\ posts[enqueued[s][2].post].status = 202

(* C7: the tools array of a tools/list result has the length of            *)
(* get_tools() and its i-th entry carries the name, description and        *)
(* inputSchema of the i-th registered tool, and nothing else.              *)
C7_ToolsListMatchesRegistry ==
  \A i \in 1..Len(posts) :
    (Dispatched(i) /\ posts[i].msg.method = "tools/list") =>
      /\ posts[i].pc = "done"
      /\ posts[i].out = "envelope"
      /\ "result" \in DOMAIN posts[i].resp
      /\ DOMAIN posts[i].resp.result = {"tools"}
      /\ DOMAIN posts[i].resp.result.tools = 1..Len(get_tools)
      /\ \A k \in 1..Len(get_tools) :
           /\ DOMAIN posts[i].resp.result.tools[k] = {"name", "description", "inputSchema"}
           /\ posts[i].resp.result.tools[k].name = get_tools[k].name
           /\ posts[i].resp.result.tools[k].description = get_tools[k].description
           /\ posts[i].resp.result.tools[k].inputSchema = get_tools[k].inputSchema

C7_Witness ==
  \E i \in 1..Len(posts) :
    /\ Dispatched(i)
    /\ posts[i].msg.method = "tools/list"
    /\ posts[i].status = 202
    /\ posts[i].resp.result.tools[2].name = "discover_person_ids"

(* ======================= properties of the transport ==================== *)
IsMessageEvent(e) == e.event = "message"

Delivered(s) == SelectSeq(emitted[s], IsMessageEvent)

Holding(s) == IF inhand[s] = NoItem THEN << >> ELSE <<inhand[s]>>

(* C8: on each session's stream the message events are the envelopes put   *)
(* on that session's queue, in the order of the puts, each once and none   *)
(* skipped; while the connection lives, what was put and is not yet        *)
(* written is what the loop holds followed by the queue.                   *)
C8_FifoDelivery ==
  \A s \in Created :
    /\ Len(Delivered(s)) <= Len(enqueued[s])
    /\ \A k \in 1..Len(Delivered(s)) :
         /\ Delivered(s)[k].post = enqueued[s][k].post
         /\ Delivered(s)[k].data = <<"json.dumps:", enqueued[s][k].env>>
    /\ ssePc[s] # "terminated" =>
         /\ Len(Delivered(s)) + Len(Holding(s)) + Len(objs[s].queue) = Len(enqueued[s])
         /\ \A k \in 1..Len(Holding(s)) : Holding(s)[k] = enqueued[s][Len(Delivered(s)) + k]
         /\ \A k \in 1..Len(objs[s].queue) :
              objs[s].queue[k] = enqueued[s][Len(Delivered(s)) + Len(Holding(s)) + k]

C8_Witness ==
  \E s \in Created :
    /\ Len(Delivered(s)) = 2
    /\ Delivered(s)[1].post # Delivered(s)[2].post
    /\ Len(emitted[s]) = 4

(* C9: a POST /messages addressed to one session changes the queue and the *)
(* initialized flag of no other session, and every message event on a      *)
(* session's stream, like every item of its queue, comes from a POST       *)
(* addressed to that session.                                              *)
C9_OwnEnvelopesOnly ==
  \A s \in Created :
    /\ \A k \in 1..Len(emitted[s]) :
         IsMessageEvent(emitted[s][k]) => posts[emitted[s][k].post].sid = s
    /\ \A k \in 1..Len(objs[s].queue) : posts[objs[s].queue[k].post].sid = s
    /\ inhand[s] # NoItem => posts[inhand[s].post].sid = s

C9_PostFrame ==
  \A i \in 1..Len(posts') :
    (i > Len(posts) \/ posts'[i] # posts[i]) =>
      \A other \in Created : other # posts'[i].sid => objs'[other] = objs[other]

C9_SessionIsolation == [](C9_OwnEnvelopesOnly) /\ [][C9_PostFrame]_vars

C9_Witness ==
  /\ Created = {1, 2}
  /\ objs[1].initialized
  /\ ~objs[2].initialized
  /\ Len(Delivered(2)) = 1
  /\ posts[Delivered(2)[1].post].msg.method = "tools/call"
  /\ objs[1].queue # << >>

(* C10: once a /sse handler has ended, for whatever reason after it        *)
(* created its session, the session id is no longer in the session table.  *)
C10_EndedHandlerLeavesNoSession ==
  \A s \in Created : ssePc[s] = "terminated" => s \notin DOMAIN sessions

(* ======================= properties of POST /messages =================== *)
(* C11: a POST /messages whose sessionId is missing, or is no key of the   *)
(* session table when the handler looks it up (ids of sessions removed     *)
(* earlier included), is answered 404; its body is never read or           *)
(* dispatched, it invokes no tool, and its step changes no session's queue *)
(* or flag, nor the table.                                                 *)
C11_Rejected ==
  \A i \in 1..Len(posts) :
    posts[i].status = 404 =>
      /\ posts[i].pc = "done"
      /\ posts[i].msg = Unread
      /\ posts[i].out = "notdispatched"
      /\ posts[i].calls = 0
      /\ QueuedBy(i) = {}

C11_LookupStep ==
  /\ \A i \in 1..Len(posts') :
       (i > Len(posts) /\ (posts'[i].sid = NoSessionId \/ posts'[i].sid \notin DOMAIN sessions)) =>
         /\ posts'[i].status = 404
         /\ posts'[i].pc = "done"
         /\ objs' = objs
         /\ sessions' = sessions
         /\ enqueued' = enqueued
         /\ toolCalls' = toolCalls
  /\ \A i \in 1..Len(posts) : posts[i].status = 404 => posts'[i] = posts[i]

C11_UnknownSessionIs404 == [](C11_Rejected) /\ [][C11_LookupStep]_vars

C11_Witness ==
  \E i \in 1..Len(posts) : \E j \in 1..Len(posts) :
    /\ posts[i].status = 404
    /\ posts[i].sid \in Created \ DOMAIN sessions
    /\ j < i
    /\ posts[j].sid = posts[i].sid
    /\ posts[j].status = 202
    /\ objs[posts[i].sid].initialized

(* C12: a POST /messages to an existing session whose body is not JSON     *)
(* text is answered 400; it is not dispatched, invokes no tool, and its    *)
(* step leaves the session table, every queue and every initialized flag   *)
(* as they were.                                                           *)
C12_Answer ==
  \A i \in 1..Len(posts) :
    posts[i].msg.kind = "invalid" =>
      /\ posts[i].pc = "done"
      /\ posts[i].status = 400
      /\ posts[i].out = "notdispatched"
      /\ posts[i].calls = 0
      /\ QueuedBy(i) = {}

C12_Step ==
  \A i \in 1..Len(posts) :
    (posts[i].pc = "read" /\ posts'[i].msg.kind = "invalid") =>
      /\ sessions' = sessions
      /\ objs' = objs
      /\ enqueued' = enqueued
      /\ toolCalls' = toolCalls

C12_InvalidJsonIs400 == [](C12_Answer) /\ [][C12_Step]_vars

C12_Witness ==
  \E i \in 1..Len(posts) :
    /\ posts[i].msg.kind = "invalid"
    /\ posts[i].status = 400
    /\ posts[i].session \in DOMAIN sessions
    /\ objs[posts[i].session].queue # << >>
    /\ ~objs[posts[i].session].initialized

(* C13: a POST /messages on an existing session whose body parsed and      *)
(* whose dispatch completed is answered 202 in each of the three outcomes: *)
(* a result envelope queued, an error envelope (-32601 or -32603) queued,  *)
(* and no envelope at all; the envelope, when there is one, is on the      *)
(* queue of the POST's session and nowhere else.                           *)
C13_AlwaysAccepted ==
  \A i \in 1..Len(posts) :
    (posts[i].pc = "done" /\ Dispatched(i)) =>
      /\ posts[i].out \in {"envelope", "nothing"}
      /\ posts[i].status = 202
      /\ posts[i].out = "envelope" => QueuedBy(i) = {posts[i].session}
      /\ posts[i].out = "nothing" => QueuedBy(i) = {}

C13_Witness ==
  \E i \in 1..Len(posts) :
    /\ Dispatched(i)
    /\ posts[i].out = "nothing"
    /\ posts[i].status = 202
    /\ QueuedBy(i) = {}
    /\ Len(emitted[posts[i].session]) = 1

(* C14: no envelope put on a session's queue is lost: whatever the        *)
(* position of the /sse handler at the put (before the loop's first wait,  *)
(* waiting, writing an earlier event or a keepalive, or with the timeout   *)
(* about to fire), the k-th envelope put on a session is eventually the    *)
(* k-th message event of its stream, unless the connection ends.           *)
C14_NoEnvelopeLost ==
  \A s \in 1..MaxSessions : \A k \in 1..MaxPosts :
    (s \in Created /\ Len(enqueued[s]) >= k)
      ~> (s \in Created /\ (ssePc[s] = "terminated" \/ Len(Delivered(s)) >= k))

C14_Witness ==
  \E s \in DOMAIN sessions :
    /\ ssePc[s] = "wait"
    /\ Keepalives(s) = 1
    /\ Len(enqueued[s]) = 2
    /\ Len(Delivered(s)) = 2
    /\ emitted[s][2].event = KeepaliveComment.event
    /\ objs[s].queue = << >>

(* C15: on an open stream a keepalive comment is written exactly when a   *)
(* wait on the empty queue has lasted the full KeepaliveTimeout, and a     *)
(* message event only for an envelope taken from the queue: a stream on    *)
(* which nothing was ever queued shows no message event, shows no          *)
(* keepalive before 30 units of waiting and at least one once it has been  *)
(* open for 31.                                                            *)
C15_IdleStream ==
  \A s \in Created :
    /\ Len(Delivered(s)) + Len(Holding(s)) <= Len(enqueued[s])
    /\ ssePc[s] = "wait" => now - waitStart[s] <= KeepaliveTimeout
    /\ (ssePc[s] = "wait" /\ enqueued[s] = << >>) =>
         /\ Delivered(s) = << >>
         /\ now - opened[s] >= KeepaliveTimeout + 1 => Keepalives(s) >= 1
         /\ now - opened[s] < KeepaliveTimeout => Keepalives(s) = 0

C15_KeepaliveStep ==
  \A s \in Created :
    /\ Keepalives(s)' > Keepalives(s) =>
         /\ ssePc[s] = "write_keepalive"
         /\ now - waitStart[s] >= KeepaliveTimeout
         /\ Delivered(s)' = Delivered(s)
    /\ Len(Delivered(s)') > Len(Delivered(s)) =>
         /\ inhand[s] # NoItem
         /\ Keepalives(s)' = Keepalives(s)

C15_KeepaliveOnIdle == [](C15_IdleStream) /\ [][C15_KeepaliveStep]_vars

C15_Witness ==
  \E s \in DOMAIN sessions :
    /\ ssePc[s] = "wait"
    /\ enqueued[s] = << >>
    /\ now - opened[s] = KeepaliveTimeout + 1
    /\ Keepalives(s) = 1
    /\ Len(emitted[s]) = 2

(* C16: when a session is removed while a POST for it is in flight, past   *)
(* its lookup, the rest of the POST changes neither the session table nor  *)
(* any other session's object, writes on no stream and still answers 202   *)
(* once dispatch completed; the stream of a removed session has ended, so  *)
(* what is on its queue is on no stream and never will be.                 *)
C16_OrphanStep ==
  /\ \A i \in 1..Len(posts) :
       (posts[i].pc \in {"read", "tool"} /\ posts[i].session \notin DOMAIN sessions
        /\ posts'[i] # posts[i]) =>
         /\ sessions' = sessions
         /\ emitted' = emitted
         /\ \A other \in Created : other # posts[i].session => objs'[other] = objs[other]
         /\ (posts'[i].pc = "done" /\ posts'[i].msg.kind = "object") => posts'[i].status = 202
  /\ \A s \in Created :
       ssePc[s] = "terminated" => (ssePc'[s] = "terminated" /\ emitted'[s] = emitted[s])
  /\ \A s \in Created : s \notin DOMAIN sessions => s \notin DOMAIN sessions'

C16_OrphanQueue ==
  \A s \in Created :
    /\ s \notin DOMAIN sessions => ssePc[s] = "terminated"
    /\ ssePc[s] = "terminated" =>
         \A k \in 1..Len(objs[s].queue) : \A t \in Created : \A n \in 1..Len(emitted[t]) :
           emitted[t][n].post # objs[s].queue[k].post

C16_EnqueueAfterRemovalIsSilent == [](C16_OrphanQueue) /\ [][C16_OrphanStep]_vars

C16_Witness ==
  \E i \in 1..Len(posts) : \E t \in DOMAIN sessions :
    /\ posts[i].pc = "done"
    /\ posts[i].status = 202
    /\ posts[i].tool.kind = "str"
    /\ posts[i].session \in Created \ DOMAIN sessions
    /\ Len(emitted[posts[i].session]) = 1
    /\ objs[posts[i].session].queue = <<QueueItem(posts[i].resp, i)>>
    /\ ssePc[t] = "wait"
    /\ objs[t].queue = << >>
    /\ Delivered(t) = << >>

(* C17: removing a session id from the table is idempotent: for an id that *)
(* is not in the table the removal returns the table as it is, removing    *)
(* twice is removing once, and a removal takes away no other id; in a run, *)
(* an id leaves the table only at the end of its own /sse handler.         *)
C17_RemoveOnce ==
  \A id \in 0..MaxSessions :
    LET once == RemoveSession(sessions, id)
    IN /\ RemoveSession(once, id) = once
       /\ DOMAIN once = DOMAIN sessions \ {id}
       /\ \A k \in DOMAIN once : once[k] = sessions[k]
       /\ id \notin DOMAIN sessions => once = sessions

C17_RemoveStep ==
  \A k \in DOMAIN sessions :
    k \notin DOMAIN sessions' => (ssePc[k] # "terminated" /\ ssePc'[k] = "terminated")

C17_RemovalIdempotent == [](C17_RemoveOnce) /\ [][C17_RemoveStep]_vars

C17_Witness ==
  \E s \in Created : \E t \in DOMAIN sessions :
    /\ s \notin DOMAIN sessions
    /\ ssePc[s] = "terminated"
    /\ Len(emitted[s]) >= 1
    /\ ssePc[t] # "terminated"
    /\ RemoveSession(sessions, s) = sessions
    /\ DOMAIN RemoveSession(sessions, t) = {}

(* ===================== properties of POST /tools/{name} ================= *)
(* C18: a POST /tools/{name} whose name is no registered tool is answered  *)
(* 404 with "Tool '<name>' not found" and invokes no tool, whatever its    *)
(* body: absent, not JSON, malformed JSON or valid JSON.                   *)
C18_UnknownToolIs404 ==
  \A j \in 1..Len(rests) :
    rests[j].tool_name \notin ToolNames =>
      /\ rests[j].pc = "done"
      /\ rests[j].calls = 0
      /\ rests[j].status = 404
      /\ rests[j].error = <<"Tool '", rests[j].tool_name, "' not found">>

(* C19: for a registered tool, the same arguments and the same value       *)
(* returned by the tool (a str, a JSON value or a list of TextContent),    *)
(* the content list answered by POST /tools/{name} is the content list of  *)
(* the result of the JSON-RPC tools/call.                                  *)
C19_RestMatchesToolsCall ==
  \A i \in 1..Len(posts) : \A j \in 1..Len(rests) :
    ( /\ posts[i].pc = "done"
      /\ rests[j].pc = "done"
      /\ IsToolsCall(posts[i].msg)
      /\ rests[j].tool_name \in ToolNames
      /\ RequestedTool(posts[i].msg) = rests[j].tool_name
      /\ Get(posts[i].msg.params.arguments, EmptyArguments) = rests[j].arguments
      /\ rests[j].tool.kind \in {"str", "json", "textlist"}
      /\ posts[i].tool = rests[j].tool ) =>
        /\ rests[j].status = 200
        /\ "result" \in DOMAIN posts[i].resp
        /\ posts[i].resp.result.content = rests[j].content

(* C26: a POST /tools/{name} on a registered tool invokes the tool exactly *)
(* once, with the arguments member of the body when the body is a JSON     *)
(* object and with the empty mapping when the body is absent or is not     *)
(* JSON, a body declared as JSON that does not parse included.             *)
C26_InvokedOnce ==
  \A j \in 1..Len(rests) :
    (rests[j].tool_name \in ToolNames /\ rests[j].body.kind \in {"absent", "invalid", "object"}) =>
      /\ rests[j].calls = 1
      /\ rests[j].arguments =
           IF rests[j].body.kind = "object" /\ rests[j].body.arguments # ABSENT
             THEN rests[j].body.arguments
             ELSE "{}"

(* C20: a POST /tools/{name} on a registered tool whose invocation raises, *)
(* or whose result cannot be serialised, is answered 500 with the          *)
(* failure's description; every step of the handler ends in an answer and  *)
(* leaves the session table, the session objects and their queues, the     *)
(* streams and the POSTs on /messages as they were.                        *)
C20_Failure ==
  \A j \in 1..Len(rests) :
    /\ (rests[j].tool_name \in ToolNames /\ rests[j].tool.kind \in {"raise", "opaque"}) =>
         /\ rests[j].pc = "done"
         /\ rests[j].status = 500
         /\ rests[j].content = << >>
         /\ rests[j].error = IF rests[j].tool.kind = "raise"
                                THEN rests[j].tool.val
                                ELSE <<"Object of type set is not JSON serializable">>
    /\ rests[j].pc = "done" => rests[j].status \in {200, 404, 500}

C20_Step ==
  \A j \in 1..Len(rests') :
    (j > Len(rests) \/ rests'[j] # rests[j]) =>
      /\ sessions' = sessions
      /\ objs' = objs
      /\ emitted' = emitted
      /\ enqueued' = enqueued
      /\ posts' = posts

C20_RestFailureIs500 == [](C20_Failure) /\ [][C20_Step]_vars

C20_Witness ==
  \E j \in 1..Len(rests) : \E s \in DOMAIN sessions :
    /\ rests[j].tool.kind = "opaque"
    /\ rests[j].status = 500
    /\ rests[j].arguments = "args"
    /\ objs[s].queue # << >>
    /\ ssePc[s] = "wait"

(* ======================= properties of the sessions ===================== *)
(* C21: each GET /sse creates exactly one session, with an empty queue and *)
(* initialized false, under an id that no session created earlier has,    *)
(* the removed ones included; nothing else ever adds to the table.         *)
C21_DistinctIds ==
  /\ \A k \in Created : objs[k].session_id = k
  /\ \A k \in DOMAIN sessions : k \in Created /\ sessions[k] = k

C21_CreateStep ==
  /\ Cardinality(DOMAIN sessions' \ DOMAIN sessions) <= 1
  /\ Created \subseteq Created'
  /\ \A k \in DOMAIN sessions' \ DOMAIN sessions :
       /\ k \notin Created
       /\ Created' = Created \cup {k}
       /\ objs'[k] = [session_id |-> k, queue |-> << >>, initialized |-> FALSE]
       /\ \A other \in Created : objs'[other] = objs[other]
       /\ DOMAIN sessions \subseteq DOMAIN sessions'
  /\ \A k \in Created' \ Created : k \in DOMAIN sessions'

C21_FreshSession == [](C21_DistinctIds) /\ [][C21_CreateStep]_vars

C21_Witness ==
  /\ Created = {1, 2}
  /\ DOMAIN sessions = {2}
  /\ objs[1].initialized
  /\ objs[1].queue # << >>
  /\ objs[2] = [session_id |-> 2, queue |-> << >>, initialized |-> FALSE]
  /\ ssePc[1] = "terminated"
  /\ ssePc[2] = "prepare"

(* C22: the initialized flag of a session is true exactly when an          *)
(* initialize request was dispatched for that session: false at creation,  *)
(* set by the first initialize, never reset by a later step, and never set *)
(* by a request of another session.                                        *)
InitializeDispatched(s) ==
  \E i \in 1..Len(posts) :
    /\ posts[i].session = s
    /\ Dispatched(i)
    /\ posts[i].msg.method = "initialize"

C22_FlagMeansInitialize ==
  \A s \in Created : objs[s].initialized <=> InitializeDispatched(s)

C22_FlagStep ==
  \A s \in Created : objs[s].initialized => objs'[s].initialized

C22_InitializedFlag == [](C22_FlagMeansInitialize) /\ [][C22_FlagStep]_vars

C22_Witness ==
  \E i \in 1..Len(posts) : \E j \in 1..Len(posts) :
    /\ Created = {1, 2}
    /\ i < j
    /\ posts[i].session = 1
    /\ posts[i].msg.method = "initialize"
    /\ posts[j].session = 1
    /\ posts[j].msg.method = "tools/call"
    /\ posts[j].pc = "done"
    /\ objs[1].initialized
    /\ ~objs[2].initialized

(* C23: a request whose method is none of initialize,                      *)
(* notifications/initialized, tools/list, tools/call and resources/list    *)
(* (prompts/list, a missing method, any other name) is answered with error *)
(* -32601, "Method not found" for prompts/list and                         *)
(* "Method '<method>' not found" otherwise; it invokes no tool and its     *)
(* step leaves every initialized flag as it was, set or not.               *)
HasOwnBranch(method) ==
  method \in {"initialize", "notifications/initialized", "tools/list", "tools/call",
              "resources/list"}

C23_Answer ==
  \A i \in 1..Len(posts) :
    (Dispatched(i) /\ ~HasOwnBranch(posts[i].msg.method)) =>
      /\ posts[i].pc = "done"
      /\ posts[i].calls = 0
      /\ posts[i].out = "envelope"
      /\ posts[i].resp =
           [jsonrpc |-> "2.0", id |-> RequestId(posts[i].msg),
            error |-> [code |-> -32601,
                       message |->
                         IF posts[i].msg.method = "prompts/list"
                           THEN <<"Method not found">>
                           ELSE <<"Method '",
                                  IF posts[i].msg.method = ABSENT
                                    THEN "None" ELSE posts[i].msg.method,
                                  "' not found">>]]

C23_Step ==
  \A i \in 1..Len(posts) :
    (posts[i].pc = "read" /\ posts'[i].msg.kind = "object"
     /\ ~HasOwnBranch(posts'[i].msg.method)) =>
      /\ toolCalls' = toolCalls
      /\ sessions' = sessions
      /\ \A s \in Created : objs'[s].initialized = objs[s].initialized

C23_UnknownMethod == [](C23_Answer) /\ [][C23_Step]_vars

C23_Witness ==
  \E i \in 1..Len(posts) : \E j \in 1..Len(posts) :
    /\ posts[i].msg.method = "initialize"
    /\ posts[j].pc = "done"
    /\ posts[j].msg.method = ABSENT
    /\ posts[j].msg.id = "1"
    /\ posts[j].resp.error.message = <<"Method '", "None", "' not found">>
    /\ posts[j].session = posts[i].session
    /\ objs[posts[j].session].initialized
    /\ Len(Delivered(posts[j].session)) = 2
    /\ Delivered(posts[j].session)[1].post = i

(* C25: on every stream the first event written is the endpoint event      *)
(* with data /messages?sessionId=<id> for the stream's own session id; it  *)
(* comes before every message event and keepalive, also when an envelope   *)
(* was queued before the loop started, and no other endpoint event         *)
(* follows.                                                                *)
C25_EndpointFirst ==
  \A s \in Created :
    /\ emitted[s] # << >> =>
         /\ emitted[s][1] = [event |-> "endpoint",
                             data |-> <<"/messages?sessionId=", objs[s].session_id>>,
                             post |-> 0]
         /\ \A k \in 2..Len(emitted[s]) : emitted[s][k].event # "endpoint"
    /\ ssePc[s] \in {"wait", "write_message", "write_keepalive"} => emitted[s] # << >>
    /\ ssePc[s] \in {"prepare", "endpoint"} => emitted[s] = << >>

C25_EndpointStep ==
  \A s \in Created :
    /\ Len(emitted'[s]) >= Len(emitted[s])
    /\ \A k \in 1..Len(emitted[s]) : emitted'[s][k] = emitted[s][k]

C25_EndpointEventFirst == [](C25_EndpointFirst) /\ [][C25_EndpointStep]_vars

C25_Witness ==
  \E s \in Created :
    /\ s = 2
    /\ Len(emitted[s]) = 3
    /\ emitted[s][1].data = <<"/messages?sessionId=", 2>>
    /\ emitted[s][2].event = "message"
    /\ emitted[s][3].event = ": keepalive"
    /\ Len(emitted[1]) = 1
    /\ emitted[1][1].data = <<"/messages?sessionId=", 1>>

(* C27: a POST /messages on an existing session whose handling fails       *)
(* otherwise than by malformed JSON is answered 500 with the failure's     *)
(* description; its step puts nothing on any queue and leaves the session  *)
(* table, and so the session, as it was.                                   *)
C27_Answer ==
  \A i \in 1..Len(posts) :
    /\ posts[i].out = "raised" =>
         /\ posts[i].pc = "done"
         /\ posts[i].status = 500
         /\ posts[i].exc = <<"'", "list", "' object has no attribute 'get'">>
         /\ posts[i].calls = 0
         /\ QueuedBy(i) = {}
    /\ posts[i].status = 500 => posts[i].out = "raised"
    /\ (posts[i].pc = "done" /\ posts[i].msg.kind = "array") => posts[i].out = "raised"

C27_Step ==
  \A i \in 1..Len(posts) :
    (posts[i].pc = "read" /\ posts'[i].out = "raised") =>
      /\ sessions' = sessions
      /\ objs' = objs
      /\ enqueued' = enqueued
      /\ toolCalls' = toolCalls

C27_OtherFailureIs500 == [](C27_Answer) /\ [][C27_Step]_vars

C27_Witness ==
  \E i \in 1..Len(posts) :
    /\ posts[i].out = "raised"
    /\ posts[i].status = 500
    /\ posts[i].session \in DOMAIN sessions
    /\ ssePc[posts[i].session] = "wait"
    /\ Len(objs[posts[i].session].queue) = 1
    /\ objs[posts[i].session].initialized

(* C28: a request that carries no id is a notification: whatever its       *)
(* method, the dispatcher produces no response envelope for it and its     *)
(* POST puts nothing on a queue.                                           *)
C28_NoIdNoResponse ==
  \A i \in 1..Len(posts) :
    (Dispatched(i) /\ posts[i].msg.id = ABSENT /\ posts[i].pc = "done") =>
      /\ posts[i].out = "nothing"
      /\ posts[i].resp = NoEnvelope
      /\ QueuedBy(i) = {}

(* C29: under every interleaving of /sse handlers and /messages lookups,   *)
(* each entry of the session table maps its key k to a complete session    *)
(* object of its own whose session_id is k, with a queue and an            *)
(* initialized flag; what a lookup returns is such an object, and a lookup *)
(* of a key that is not in the table returns none.                         *)
CompleteSession(obj, k) ==
  /\ DOMAIN obj = {"session_id", "queue", "initialized"}
  /\ obj.session_id = k
  /\ obj.initialized \in BOOLEAN
  /\ DOMAIN obj.queue = 1..Len(obj.queue)

C29_TableEntries ==
  /\ \A k \in DOMAIN sessions :
       /\ sessions[k] \in Created
       /\ CompleteSession(objs[sessions[k]], k)
       /\ \A other \in DOMAIN sessions : other # k => sessions[other] # sessions[k]
  /\ \A i \in 1..Len(posts) :
       /\ posts[i].session # NoSessionId =>
            /\ posts[i].session \in Created
            /\ CompleteSession(objs[posts[i].session], posts[i].sid)
       /\ posts[i].session = NoSessionId => posts[i].status = 404

C29_LookupStep ==
  \A i \in 1..Len(posts') :
    i > Len(posts) =>
      IF posts'[i].sid \in DOMAIN sessions
        THEN posts'[i].session = sessions[posts'[i].sid]
        ELSE posts'[i].session = NoSessionId

C29_TableAtomicity == [](C29_TableEntries) /\ [][C29_LookupStep]_vars

C29_Witness ==
  \E i \in 1..Len(posts) : \E j \in 1..Len(posts) :
    /\ Created = {1, 2}
    /\ DOMAIN sessions = {2}
    /\ ssePc[2] = "prepare"
    /\ posts[i].session = 2
    /\ posts[i].pc = "read"
    /\ posts[j].sid = 1
    /\ posts[j].status = 404
    /\ ssePc[1] = "terminated"
    /\ Len(emitted[1]) = 1

(* C30: a tool invocation started by a POST /messages is not cancelled by  *)
(* the end of its session's stream nor by any other request: the POST      *)
(* stays where it is until handle_tool_call returns or raises, and then    *)
(* ends with status 202.                                                   *)
C30_InFlight ==
  \A i \in 1..Len(posts) :
    /\ posts[i].pc = "tool" => (posts[i].calls = 1 /\ posts[i].tool = NoOutcome)
    /\ (posts[i].pc = "done" /\ posts[i].calls = 1) =>
         /\ posts[i].tool # NoOutcome
         /\ posts[i].status = 202

C30_ToolStep ==
  \A i \in 1..Len(posts) :
    posts[i].pc = "tool" =>
      \/ posts'[i] = posts[i]
      \/ /\ posts'[i].pc = "done"
         /\ posts'[i].tool # NoOutcome
         /\ posts'[i].status = 202

C30_NoCancellation == [](C30_InFlight) /\ [][C30_ToolStep]_vars

C30_Witness ==
  \E i \in 1..Len(posts) : \E j \in 1..Len(posts) :
    /\ posts[i].pc = "done"
    /\ posts[i].tool.kind = "raise"
    /\ posts[i].status = 202
    /\ posts[i].session \notin DOMAIN sessions
    /\ ssePc[posts[i].session] = "terminated"
    /\ j > i
    /\ posts[j].sid = posts[i].sid
    /\ posts[j].status = 404

(* ==================== properties of discover_person_ids ================= *)
RECURSIVE IsSubsequence(_, _)
IsSubsequence(short, long) ==
  IF short = << >> THEN TRUE
  ELSE IF long = << >> THEN FALSE
  ELSE IF Head(short) = [name |-> Head(long).name, pid |-> Head(long).id]
         THEN IsSubsequence(Tail(short), Tail(long))
         ELSE IsSubsequence(short, Tail(long))

(* C24: discover_person_ids shows at most `limit` persons, for every       *)
(* integer limit (none for a limit below 1); the name of each contains the *)
(* search term, case ignored, unless the term is empty; and they come in   *)
(* the order of the person list.                                           *)
C24_AtMostLimit ==
  discovery.pc = "done" =>
    /\ Len(discovery.matches) <= (IF discovery.limit < 0 THEN 0 ELSE discovery.limit)
    /\ \A k \in 1..Len(discovery.matches) :
         \/ discovery.search_term = << >>
         \/ Contains(LowerSeq(discovery.search_term), LowerSeq(discovery.matches[k].name))
    /\ IsSubsequence(discovery.matches, discovery.person_filters)

(* What does hold of discover_person_ids (C24 without the limits below 1): *)
(* at most `limit` persons for a limit of 1 or more, every name matching,  *)
(* in the order of the list.                                               *)
C24_MatchesInOrder ==
  discovery.pc = "done" =>
    /\ discovery.limit >= 1 => Len(discovery.matches) <= discovery.limit
    /\ \A k \in 1..Len(discovery.matches) :
         \/ discovery.search_term = << >>
         \/ Contains(LowerSeq(discovery.search_term), LowerSeq(discovery.matches[k].name))
    /\ IsSubsequence(discovery.matches, discovery.person_filters)

(* ================= properties of the last five claims =================== *)
(* C31: the POST /messages handler never waits for SSE delivery.  No POST  *)
(* is ever suspended in the put of its response, and the step that ends a  *)
(* dispatch with a response puts it at the back of the session's queue,    *)
(* whatever the length of that queue, and ends the handler with 202 in the *)
(* same step, without any step of the /sse handler.                        *)
C31_NoPendingPut == \A i \in 1..Len(posts) : posts[i].pc \in {"read", "tool", "done"}

C31_Step ==
  \A i \in 1..Len(posts) :
    (posts[i].pc \in {"read", "tool"} /\ posts'[i] # posts[i]) =>
      /\ posts'[i].pc = "done" \/ (posts[i].pc = "read" /\ posts'[i].pc = "tool")
      /\ (posts'[i].pc = "done" /\ Truthy(posts'[i].resp)) =>
           /\ posts'[i].status = 202
           /\ objs'[posts[i].session].queue =
                Append(objs[posts[i].session].queue, QueueItem(posts'[i].resp, i))
           /\ ssePc' = ssePc
           /\ inhand' = inhand
           /\ emitted' = emitted

C31_PostNeverWaits == [](C31_NoPendingPut) /\ [][C31_Step]_vars

(* Two POSTs answered 202 on a session whose stream ended before its loop  *)
(* took anything: both envelopes stay on the queue.                        *)
C31_Witness ==
  \E s \in Created :
    /\ ssePc[s] = "terminated"
    /\ emitted[s] = << >>
    /\ Len(objs[s].queue) = 2
    /\ \A i \in 1..2 : /\ posts[i].session = s
                       /\ posts[i].pc = "done"
                       /\ posts[i].status = 202
                       /\ Truthy(posts[i].resp)

(* C33: the frame of a dispatch.  A step of a POST that dispatches (from   *)
(* the read of its body, or from the return of its tool) leaves the        *)
(* session table, every other session object and every stream as they      *)
(* were; of its own session object it changes only the initialized flag,   *)
(* which becomes true exactly when the method is initialize, and the       *)
(* queue, by the one put of messages_handler.  And two requests that are   *)
(* equal, with equal tool outcomes, get equal answers whatever the flag    *)
(* was when each was dispatched.                                           *)
C33_Step ==
  \A i \in 1..Len(posts) :
    (posts[i].pc \in {"read", "tool"} /\ posts'[i] # posts[i]) =>
      LET s == posts[i].session
          msg == posts'[i].msg
          initialize == /\ posts[i].pc = "read"
                        /\ msg.kind = "object"
                        /\ msg.method = "initialize"
          queued == posts'[i].pc = "done" /\ Truthy(posts'[i].resp)
      IN /\ sessions' = sessions
         /\ DOMAIN objs' = DOMAIN objs
         /\ \A t \in Created \ {s} : objs'[t] = objs[t]
         /\ objs'[s].session_id = objs[s].session_id
         /\ objs'[s].initialized = (objs[s].initialized \/ initialize)
         /\ objs'[s].queue = IF queued
                               THEN Append(objs[s].queue, QueueItem(posts'[i].resp, i))
                               ELSE objs[s].queue
         /\ inhand' = inhand
         /\ ssePc' = ssePc
         /\ emitted' = emitted

C33_FlagBlind ==
  \A i \in 1..Len(posts) : \A j \in 1..Len(posts) :
    ( /\ posts[i].pc = "done"
      /\ posts[j].pc = "done"
      /\ posts[i].msg = posts[j].msg
      /\ posts[i].tool = posts[j].tool
      /\ posts[i].msg.kind = "object"
      /\ posts[i].msg.method # "initialize" ) =>
        /\ posts[i].out = posts[j].out
        /\ posts[i].resp = posts[j].resp
        /\ posts[i].status = posts[j].status

C33_DispatchFrame == [](C33_FlagBlind) /\ [][C33_Step]_vars

(* On one session: a tools/list answered, then an initialize, then the     *)
(* same tools/list answered again, while the other session stays           *)
(* uninitialized with an empty queue.                                      *)
C33_Witness ==
  \E s \in Created : \E t \in Created \ {s} :
    /\ Len(enqueued[s]) = 3
    /\ posts[enqueued[s][1].post].msg.method = "tools/list"
    /\ posts[enqueued[s][2].post].msg.method = "initialize"
    /\ posts[enqueued[s][3].post].msg.method = "tools/list"
    /\ enqueued[s][1].env = enqueued[s][3].env
    /\ objs[s].initialized
    /\ ~objs[t].initialized
    /\ objs[t].queue = << >>

(* C34: POSTs are numbered in the order of their arrival.  The envelope of *)
(* a POST goes to the back of its session's queue in the step in which its *)
(* dispatch completes, so the queue, and with it the stream, is in the     *)
(* order of the completions, which need not be the order of the arrivals;  *)
(* each POST has at most one envelope among all those put on the queues,   *)
(* on its own session, with the id of its own request.                     *)
C34_Step ==
  \A i \in 1..Len(posts) :
    (posts[i].pc \in {"read", "tool"} /\ posts'[i].pc = "done") =>
      LET s == posts[i].session
      IN IF Truthy(posts'[i].resp)
           THEN /\ enqueued'[s] = Append(enqueued[s], QueueItem(posts'[i].resp, i))
                /\ objs'[s].queue = Append(objs[s].queue, QueueItem(posts'[i].resp, i))
           ELSE /\ enqueued'[s] = enqueued[s]
                /\ objs'[s].queue = objs[s].queue

C34_OneEnvelopeEach ==
  /\ \A i \in 1..Len(posts) :
       Cardinality({<<s, k>> \in Created \X (1..MaxPosts) :
                      k <= Len(enqueued[s]) /\ enqueued[s][k].post = i}) <= 1
  /\ \A s \in Created : \A k \in 1..Len(enqueued[s]) :
       LET i == enqueued[s][k].post
       IN /\ i \in 1..Len(posts)
          /\ posts[i].pc = "done"
          /\ posts[i].session = s
          /\ enqueued[s][k].env = posts[i].resp
          /\ enqueued[s][k].env.id = RequestId(posts[i].msg)
  /\ \A s \in Created : \A k \in 1..Len(Delivered(s)) :
       Delivered(s)[k].post = enqueued[s][k].post

C34_CompletionOrder == [](C34_OneEnvelopeEach) /\ [][C34_Step]_vars

(* The POST that arrived second completed first: its envelope is delivered *)
(* before that of the POST that arrived first, each with its own id.       *)
C34_Witness ==
  \E s \in Created :
    /\ Len(Delivered(s)) = 2
    /\ Delivered(s)[1].post = 2
    /\ Delivered(s)[2].post = 1
    /\ posts[1].calls = 1
    /\ enqueued[s][1].env.id = posts[2].msg.id
    /\ enqueued[s][2].env.id = posts[1].msg.id
    /\ posts[1].msg.id # posts[2].msg.id

(* C35: every answer of GET /tools and every answer of tools/list carry    *)
(* the same sequence of tools, entry by entry (name, description and       *)
(* inputSchema); and a name is in that listing exactly when a tools/call   *)
(* for it, and a POST /tools/{name} whose body was read, get past the      *)
(* existence check to the invocation of handle_tool_call.                  *)
ListedByRest(l) ==
  {listings[l].body.tools[k].name : k \in DOMAIN listings[l].body.tools}

IsToolsListAnswer(i) ==
  /\ posts[i].pc = "done"
  /\ posts[i].msg.kind = "object"
  /\ posts[i].msg.method = "tools/list"

ListedByRpc(i) ==
  {posts[i].resp.result.tools[k].name : k \in DOMAIN posts[i].resp.result.tools}

C35_SameTools ==
  /\ \A i \in 1..Len(posts) :
       IsToolsListAnswer(i) =>
         /\ "result" \in DOMAIN posts[i].resp
         /\ \A l \in 1..Len(listings) :
              /\ listings[l].status = 200
              /\ posts[i].resp.result.tools = listings[l].body.tools
              /\ ListedByRpc(i) = ListedByRest(l)
  /\ \A l \in 1..Len(listings) :
       /\ \A i \in 1..Len(posts) :
            (IsToolsCall(posts[i].msg) /\ posts[i].pc \in {"tool", "done"}) =>
              (posts[i].calls = 1 <=> RequestedTool(posts[i].msg) \in ListedByRest(l))
       /\ \A j \in 1..Len(rests) :
            RestParse(rests[j].body).ok =>
              /\ rests[j].calls = 1 <=> rests[j].tool_name \in ListedByRest(l)
              /\ rests[j].status = 404 <=> rests[j].tool_name \notin ListedByRest(l)
  /\ \A i \in 1..Len(posts) :
       IsToolsListAnswer(i) =>
         /\ \A k \in 1..Len(posts) :
              (IsToolsCall(posts[k].msg) /\ posts[k].pc \in {"tool", "done"}) =>
                (posts[k].calls = 1 <=> RequestedTool(posts[k].msg) \in ListedByRpc(i))
         /\ \A j \in 1..Len(rests) :
              RestParse(rests[j].body).ok =>
                (rests[j].calls = 1 <=> rests[j].tool_name \in ListedByRpc(i))

(* A GET /tools answered after a tools/list and a tools/call of a listed   *)
(* tool were, and after a POST /tools/missing_tool was refused.            *)
C35_Witness ==
  /\ Len(listings) = 1
  /\ Len(listings[1].body.tools) = 2
  /\ Len(posts) = 2
  /\ IsToolsListAnswer(1)
  /\ IsToolsCall(posts[2].msg)
  /\ posts[2].pc = "done"
  /\ posts[2].calls = 1
  /\ Len(rests) = 1
  /\ rests[1].tool_name = "missing_tool"
  /\ rests[1].status = 404

====
